---- MODULE Spec2Model ----
(***************************************************************************)
(* A model of consolation's IRC client (src/src/irc.rs, src/src/main.rs):  *)
(* the line parser IrcMessageRaw::parse, the mapper Message::from_raw_msg, *)
(* the builder IrcBuilder and the connection handle Irc.                   *)
(*                                                                         *)
(* A Rust String is modelled as a sequence of one-character strings, an    *)
(* Option<T> as a sequence of length 0 (None) or 1 (Some), an io::Result   *)
(* as a record [ok, val, err].                                             *)
(***************************************************************************)
EXTENDS Integers, Sequences, FiniteSets, TLC

VARIABLES
    builder,     \* IrcBuilder: [password, nickname, capabilities]
    phase,       \* "building" | "connected" | "failed" | "refused"
    outbound,    \* the writes made on Irc.conn, in order (each a String)
    inbound,     \* bytes the peer has sent and Irc.reader has not yet returned
    peerClosed,  \* the peer has closed its side of the stream
    pc,          \* "idle" | "reading": whether a receive call is in progress
    result,      \* what the last receive call returned
    consumed,    \* history: the lines read_line has returned, in order
    callStart,   \* history: Len(consumed) when the current/last receive call began
    wire,        \* history: every byte the peer has sent
    joinLog,     \* history: the join calls made, [name, ok]
    handle,      \* history: "Open" | "Closed" (a receive has returned Ok(None))
    delivered,   \* history: the Messages receive calls have returned, in order
    fds,         \* descriptors the program holds: conn and the reader's clone
    input,       \* parser harness: the line handed to parse
    stage,       \* parser harness: "new" | "parsed" | "mapped"
    raw,         \* parser harness: the io::Result of parse(input)
    message,     \* parser harness: the io::Result of from_raw_msg(raw.val)
    form         \* parser harness: None, or Some of the nickname and text that
                 \* the PRIVMSG line in input was written from

vars == <<builder, phase, outbound, inbound, peerClosed, pc, result, consumed,
          callStart, wire, joinLog, handle, delivered, fds, input, stage, raw,
          message, form>>

connVars == <<builder, phase, outbound, inbound, peerClosed, pc, result,
              consumed, callStart, wire, joinLog, handle, delivered, fds>>

parseVars == <<input, stage, raw, message, form>>

----------------------------------------------------------------------------
(* Characters and strings                                                  *)

CR == "\r"
LF == "\n"
TAB == "\t"

\* char::is_whitespace, restricted to the characters the model uses
Whitespace == {" ", TAB, CR, LF}

\* A closure over one char, |c| .., as the set of characters it tests for and
\* whether it holds inside or outside that set
In(S) == [set |-> S, inside |-> TRUE]
NotIn(S) == [set |-> S, inside |-> FALSE]
Holds(p, c) == (c \in p.set) = p.inside

\* Option<T>
None == <<>>
Some(x) == <<x>>

\* io::Result<T>
NoVal == <<>>
Ok(v) == [ok |-> TRUE, val |-> v, err |-> ""]
Err(e) == [ok |-> FALSE, val |-> NoVal, err |-> e]

ErrCommandName == "error parsing command name: expected command name, reached end of input"
ErrPrivmsg == "PRIVMSG missing prefix"

\* Index of the first element of s that fails P, Len(s)+1 when none does
FirstFail(s, p) ==
    LET RECURSIVE scan(_)
        scan(i) == IF i > Len(s) \/ ~Holds(p, s[i]) THEN i ELSE scan(i + 1)
    IN  scan(1)

\* mutant of take_while: the first element that fails P is yielded too
take_while_incl(s, p) ==
    LET k == FirstFail(s, p)
        e == IF k > Len(s) THEN Len(s) ELSE k
    IN  [taken |-> SubSeq(s, 1, e), rest |-> SubSeq(s, k + 1, Len(s))]

\* Iterator::take_while on a borrowed iterator: yields the leading elements
\* satisfying P; the first element that fails P is taken off the iterator too.
take_while(s, p) ==
    LET k == FirstFail(s, p)
    IN  [taken |-> SubSeq(s, 1, k - 1), rest |-> SubSeq(s, k + 1, Len(s))]

\* Iterator::skip_while: drops the leading elements satisfying P, nothing else.
skip_while(s, p) == SubSeq(s, FirstFail(s, p), Len(s))

----------------------------------------------------------------------------
(* IrcMessageRaw::parse                                                    *)

RECURSIVE parse_tags(_)
\* the loop over tags_chars: key up to '=', value up to ';', stop at an empty key
parse_tags(s) ==
    LET k == take_while(s, NotIn({"="}))
        v == take_while(k.rest, NotIn({";"}))
    IN  IF Len(k.taken) = 0
        THEN <<>>
        ELSE <<(<<k.taken, v.taken>>)>> \o parse_tags(v.rest)

RECURSIVE parse_params_word(_)
\* mutant of parse_params: a parameter introduced by ':' ends at the first
\* whitespace, as the others do
parse_params_word(s) ==
    IF s = <<>>
    THEN <<>>
    ELSE LET p == IF s[1] = ":"
                  THEN take_while(Tail(s), NotIn(Whitespace \cup {CR, LF}))
                  ELSE take_while(s, NotIn(Whitespace \cup {CR, LF}))
             r == p.rest
             r2 == IF r # <<>> /\ r[1] \in {CR, LF}
                   THEN take_while(r, In({CR, LF})).rest
                   ELSE r
         IN  <<p.taken>> \o parse_params_word(r2)

RECURSIVE parse_params(_)
\* the `while chars.peek().is_some()` loop
parse_params(s) ==
    IF s = <<>>
    THEN <<>>
    ELSE LET p == IF s[1] = ":"
                  THEN take_while(Tail(s), NotIn({CR, LF}))
                  ELSE take_while(s, NotIn(Whitespace \cup {CR, LF}))
             r == p.rest
             r2 == IF r # <<>> /\ r[1] \in {CR, LF}
                   THEN take_while(r, In({CR, LF})).rest
                   ELSE r
         IN  <<p.taken>> \o parse_params(r2)

\* mutant of parse_command: the check of the command name's length is missing
parse_command_lenient(tags, prefix, command_name, rest) ==
    Ok([tags |-> tags,
        prefix |-> prefix,
        command_name |-> command_name,
        command_params |-> parse_params(rest)])

\* mutant of parse_command: `prefix` starts as Some(String::new()), not None
parse_command_prefixed(tags, prefix, command_name, rest) ==
    IF Len(command_name) = 0
    THEN Err(ErrCommandName)
    ELSE Ok([tags |-> tags,
             prefix |-> IF prefix = None THEN Some(<<>>) ELSE prefix,
             command_name |-> command_name,
             command_params |-> parse_params(rest)])

\* the end of parse, once the command name has been taken: the check of its
\* length, the parameters and the record
parse_command(tags, prefix, command_name, rest) ==
    IF Len(command_name) = 0
    THEN Err(ErrCommandName)
    ELSE Ok([tags |-> tags,
             prefix |-> prefix,
             command_name |-> command_name,
             command_params |-> parse_params(rest)])

parse(line) ==
    LET hasTags == line # <<>> /\ line[1] = "@"
        t1 == IF hasTags
              THEN take_while(Tail(line), NotIn(Whitespace))
              ELSE [taken |-> <<>>, rest |-> line]
        tags == IF hasTags THEN parse_tags(t1.taken) ELSE <<>>
        c2 == skip_while(t1.rest, In(Whitespace))
        hasPrefix == c2 # <<>> /\ c2[1] = ":"
        t2 == IF hasPrefix
              THEN take_while(Tail(c2), NotIn(Whitespace))
              ELSE [taken |-> <<>>, rest |-> c2]
        prefix == IF hasPrefix THEN Some(t2.taken) ELSE None
        c3 == skip_while(t2.rest, In(Whitespace))
        t3 == take_while(c3, NotIn(Whitespace))
    IN  parse_command(tags, prefix, t3.taken, t3.rest)

----------------------------------------------------------------------------
(* Message::from_raw_msg                                                   *)

PRIVMSG == <<"P", "R", "I", "V", "M", "S", "G">>

\* mutant of split_first: the prefix is not split
split_first_whole(s) == s

\* prefix.split("!").next().unwrap_or("")
split_first(s) == SubSeq(s, 1, FirstFail(s, NotIn({"!"})) - 1)

PrivMsg(username, body) == [username |-> username, message |-> body]

\* mutant of from_raw_msg: the body is looked up at index 0
from_raw_msg_first(raw_msg) ==
    IF raw_msg.command_name = PRIVMSG
    THEN IF raw_msg.prefix = None
         THEN Err(ErrPrivmsg)
         ELSE IF Len(raw_msg.command_params) < 1
              THEN Err(ErrPrivmsg)
              ELSE Ok(Some(PrivMsg(split_first(raw_msg.prefix[1]),
                                   raw_msg.command_params[1])))
    ELSE Ok(None)

from_raw_msg(raw_msg) ==
    IF raw_msg.command_name = PRIVMSG
    THEN IF raw_msg.prefix = None
         THEN Err(ErrPrivmsg)
         ELSE IF Len(raw_msg.command_params) < 2
              THEN Err(ErrPrivmsg)
              ELSE Ok(Some(PrivMsg(split_first(raw_msg.prefix[1]),
                                   raw_msg.command_params[2])))
    ELSE Ok(None)

----------------------------------------------------------------------------
(* Bounds and input sets                                                   *)

MaxCaps == 2     \* with_capability calls explored
MaxLines == 3    \* lines the peer sends
MaxJoins == 1    \* join calls
MaxLen == 4      \* length of the arbitrary lines handed to parse
MaxTail == 4     \* length of the arbitrary text after a PRIVMSG command name
MaxText == 2     \* length of the text of a PRIVMSG line of the documented form

Passwords == {<<"p">>, <<"q">>}
Nicknames == {<<"n">>, <<"m">>}
Capabilities == {<<"t">>, <<"g">>}
Channels == {<<"c">>, <<"#", "c">>}

\* Lines the peer sends (the examples of the protocol, shortened):
\*   ":s 001 b :W\r\n"      a numeric reply, which maps to no Message
\*   ":a!u PRIVMSG #c :h w\r\n"   a well-formed PRIVMSG
\*   "\r\n"                 a blank line (no command name)
\*   "PRIVMSG #c :h\n"      a PRIVMSG without prefix
\*   ":a!u PRIVMSG #c"      a PRIVMSG without its second parameter, and
\*                          without terminator: the bytes sent next, if any,
\*                          continue the same line
LineWelcome == <<":", "s", " ", "0", "0", "1", " ", "b", " ", ":", "W", CR, LF>>
LinePrivmsg == <<":", "a", "!", "u", " ">> \o PRIVMSG
                   \o <<" ", "#", "c", " ", ":", "h", " ", "w", CR, LF>>
LineBlank == <<CR, LF>>
LineNoPrefix == PRIVMSG \o <<" ", "#", "c", " ", ":", "h", LF>>
LineNoBody == <<":", "a", "!", "u", " ">> \o PRIVMSG \o <<" ", "#", "c">>

ServerLines == {LineWelcome, LinePrivmsg, LineBlank, LineNoPrefix, LineNoBody}

Strings(A, n) == UNION {[1..k -> A] : k \in 0..n}

Alphabet == {"@", ":", " ", CR, LF, "a", "=", ";"}
TailAlphabet == {":", " ", CR, LF, "a"}
Heads == { <<>>,
           <<" ">>,
           <<":", "n", "!", "u", " ">>,
           <<":", "s", " ">>,
           <<":", "!", "x", " ">>,
           <<":", " ">>,
           <<"@", "a", "=", "b", " ", ":", "n", "!", "u", "@", "h", " ">>,
           <<"@", "a", "=", "b", " ">> }

\* lines of the form [@tags ]:nick!user@host PRIVMSG <target> :<text><terminator>
FormTags == {<<>>, <<"@", "a", "=", "b", " ">>}
FormNicks == {<<"n">>, <<"a", "l">>}
FormUsers == {<<"u">>, <<"u", "@", "h">>, <<"u", "!", "v">>}
FormTargets == {<<"#", "c">>}
TextAlphabet == {"a", " ", ":"}
Terminators == {<<>>, <<LF>>, <<CR, LF>>}

PrivmsgLine(tg, nick, user, target, text, term) ==
    tg \o <<":">> \o nick \o <<"!">> \o user \o <<" ">> \o PRIVMSG \o <<" ">>
       \o target \o <<" ", ":">> \o text \o term

\* "@badge-info=;color=#FF0000 :alice!alice@host PRIVMSG #chan :hello world\r\n"
ExampleLine ==
    <<"@", "b", "a", "d", "g", "e", "-", "i", "n", "f", "o", "=", ";",
      "c", "o", "l", "o", "r", "=", "#", "F", "F", "0", "0", "0", "0", " ",
      ":", "a", "l", "i", "c", "e", "!", "a", "l", "i", "c", "e", "@",
      "h", "o", "s", "t", " ">>
        \o PRIVMSG
        \o <<" ", "#", "c", "h", "a", "n", " ", ":", "h", "e", "l", "l", "o", " ",
             "w", "o", "r", "l", "d", CR, LF>>

ParseInputs ==
    Strings(Alphabet, MaxLen)
        \cup {h \o PRIVMSG \o t : h \in Heads, t \in Strings(TailAlphabet, MaxTail)}

----------------------------------------------------------------------------
(* IrcBuilder                                                              *)

\* IrcBuilder::default()
DefaultBuilder == [password |-> None, nickname |-> None, capabilities |-> <<>>]

with_password(b, password) == [b EXCEPT !.password = Some(password)]

with_nickname(b, nickname) == [b EXCEPT !.nickname = Some(nickname)]

with_capability(b, capability_name) ==
    [b EXCEPT !.capabilities = Append(@, capability_name)]

\* the builder main() passes to connect
MainBuilder ==
    with_capability(
        with_password(with_nickname(DefaultBuilder, <<"n">>), <<"p">>),
        <<"t">>)

----------------------------------------------------------------------------
(* Writes on Irc.conn.  A write is [ok, out]: whether writeln! returned    *)
(* Ok, and the writes made on the stream so far.                           *)

\* [String]::join(" ")
RECURSIVE join_str(_, _)
join_str(strs, sep) ==
    IF Len(strs) = 0 THEN <<>>
    ELSE IF Len(strs) = 1 THEN strs[1]
    ELSE strs[1] \o sep \o join_str(Tail(strs), sep)

\* writeln!(self.conn, ...): the formatted text and a "\n"; `works` is whether
\* the stream accepts the write
writeln(out, text, works) ==
    IF works THEN [ok |-> TRUE, out |-> Append(out, text \o <<LF>>)]
    ELSE [ok |-> FALSE, out |-> out]

request_capabilities(out, capabilities, works) ==
    writeln(out, <<"C", "A", "P", " ", "R", "E", "Q", " ", ":">>
                     \o join_str(capabilities, <<" ">>), works)

\* mutant of authenticate: the result of the PASS write is not tested, and the
\* NICK write is made after a failed PASS write
authenticate_on(out, password, nickname, worksPass, worksNick) ==
    LET w1 == IF password # None
              THEN writeln(out, <<"P", "A", "S", "S", " ">> \o password[1], worksPass)
              ELSE [ok |-> TRUE, out |-> out]
        w2 == IF nickname # None
              THEN writeln(w1.out, <<"N", "I", "C", "K", " ">> \o nickname[1], worksNick)
              ELSE w1
    IN  [ok |-> w1.ok /\ w2.ok, out |-> w2.out]

authenticate(out, password, nickname, worksPass, worksNick) ==
    LET w1 == IF password # None
              THEN writeln(out, <<"P", "A", "S", "S", " ">> \o password[1], worksPass)
              ELSE [ok |-> TRUE, out |-> out]
    IN  IF ~w1.ok THEN w1
        ELSE IF nickname # None
             THEN writeln(w1.out, <<"N", "I", "C", "K", " ">> \o nickname[1], worksNick)
             ELSE w1

\* mutant of handshake: authenticate is called only when both the password
\* and the nickname are set
handshake_both(b, works) ==
    LET w1 == IF Len(b.capabilities) > 0
              THEN request_capabilities(<<>>, b.capabilities, works[1])
              ELSE [ok |-> TRUE, out |-> <<>>]
    IN  IF ~w1.ok THEN w1
        ELSE IF b.password # None /\ b.nickname # None
             THEN authenticate(w1.out, b.password, b.nickname, works[2], works[3])
             ELSE w1

\* the handshake of IrcBuilder::connect on a fresh stream; works[i] is whether
\* the stream accepts the CAP REQ (1), PASS (2) and NICK (3) write
handshake(b, works) ==
    LET w1 == IF Len(b.capabilities) > 0
              THEN request_capabilities(<<>>, b.capabilities, works[1])
              ELSE [ok |-> TRUE, out |-> <<>>]
    IN  IF ~w1.ok THEN w1
        ELSE IF b.password # None \/ b.nickname # None
             THEN authenticate(w1.out, b.password, b.nickname, works[2], works[3])
             ELSE w1

\* mutant of join_line: a '#' is prepended only when the name has none
join_line_smart(channel_name) ==
    IF channel_name # <<>> /\ channel_name[1] = "#"
    THEN <<"J", "O", "I", "N", " ">> \o channel_name
    ELSE <<"J", "O", "I", "N", " ", "#">> \o channel_name

\* the text Irc::join formats
join_line(channel_name) == <<"J", "O", "I", "N", " ", "#">> \o channel_name

----------------------------------------------------------------------------
(* Reads on Irc.reader                                                     *)

HasLF(s) == \E i \in 1..Len(s) : s[i] = LF

\* BufRead::read_line returns once a "\n" has arrived or the peer has closed
read_ready(buf, closed) == HasLF(buf) \/ closed

\* mutant of read_line: the reader loses the byte after the line
read_line_drop(buf) ==
    LET k == FirstFail(buf, NotIn({LF}))
        n == IF k > Len(buf) THEN Len(buf) ELSE k
    IN  [line |-> SubSeq(buf, 1, n), rest |-> SubSeq(buf, n + 2, Len(buf))]

\* BufRead::read_line: the bytes up to and including the first "\n", or all
\* that is left (possibly nothing) at end of stream
read_line(buf) ==
    LET k == FirstFail(buf, NotIn({LF}))
        n == IF k > Len(buf) THEN Len(buf) ELSE k
    IN  [line |-> SubSeq(buf, 1, n), rest |-> SubSeq(buf, n + 1, Len(buf))]

Pending == [ok |-> FALSE, val |-> NoVal, err |-> "pending"]

\* mutant of receive_line: a line that maps to no Message ends the call
receive_line_none(buf) ==
    LET raw_msg == parse(buf)
        msg == from_raw_msg(raw_msg.val)
    IN  IF ~raw_msg.ok THEN [ret |-> TRUE, val |-> Err(raw_msg.err)]
        ELSE IF ~msg.ok THEN [ret |-> TRUE, val |-> Err(msg.err)]
        ELSE IF msg.val # None THEN [ret |-> TRUE, val |-> Ok(Some(msg.val[1]))]
        ELSE [ret |-> TRUE, val |-> Ok(None)]

\* mutant of receive_line: a line that fails to parse or to map is skipped
receive_line_skip(buf) ==
    LET raw_msg == parse(buf)
        msg == from_raw_msg(raw_msg.val)
    IN  IF ~raw_msg.ok THEN [ret |-> FALSE, val |-> Pending]
        ELSE IF ~msg.ok THEN [ret |-> FALSE, val |-> Pending]
        ELSE IF msg.val # None THEN [ret |-> TRUE, val |-> Ok(Some(msg.val[1]))]
        ELSE [ret |-> FALSE, val |-> Pending]

\* mutant of receive_line: the Message of a PRIVMSG line is dropped, and the
\* loop goes on to the next line
receive_line_swallow(buf) ==
    LET raw_msg == parse(buf)
        msg == from_raw_msg(raw_msg.val)
    IN  IF ~raw_msg.ok THEN [ret |-> TRUE, val |-> Err(raw_msg.err)]
        ELSE IF ~msg.ok THEN [ret |-> TRUE, val |-> Err(msg.err)]
        ELSE [ret |-> FALSE, val |-> Pending]

\* One pass of the loop in Irc::receive over a line of n > 0 bytes:
\* [ret |-> whether receive returns, val |-> what it returns]
receive_line(buf) ==
    LET raw_msg == parse(buf)
        msg == from_raw_msg(raw_msg.val)
    IN  IF ~raw_msg.ok THEN [ret |-> TRUE, val |-> Err(raw_msg.err)]
        ELSE IF ~msg.ok THEN [ret |-> TRUE, val |-> Err(msg.err)]
        ELSE IF msg.val # None THEN [ret |-> TRUE, val |-> Ok(Some(msg.val[1]))]
        ELSE [ret |-> FALSE, val |-> Pending]

\* mutant of receive_eof: the end of the stream is reported as an error
receive_eof_err == Err("unexpected end of stream")

\* what Irc::receive returns when read_line reports n == 0
receive_eof == Ok(None)

----------------------------------------------------------------------------
(* The state machine                                                       *)

NoHarness ==
    /\ input = <<>>
    /\ stage = "off"
    /\ raw = Pending
    /\ message = Pending
    /\ form = None

NoConnection ==
    /\ phase = "building"
    /\ outbound = <<>>
    /\ inbound = <<>>
    /\ peerClosed = FALSE
    /\ pc = "idle"
    /\ result = Pending
    /\ consumed = <<>>
    /\ callStart = 0
    /\ wire = <<>>
    /\ joinLog = <<>>
    /\ handle = "Open"
    /\ delivered = <<>>
    /\ fds = 0

\* main() up to the connect call
Init == builder = MainBuilder /\ NoConnection /\ NoHarness

\* a program that has just made IrcBuilder::default()
InitBuilder == builder = DefaultBuilder /\ NoConnection /\ NoHarness

\* a line about to be handed to IrcMessageRaw::parse
InitParse ==
    /\ builder = DefaultBuilder
    /\ NoConnection
    /\ \/ input \in ParseInputs /\ form = None
       \/ \E tg \in FormTags, nick \in FormNicks, user \in FormUsers,
             target \in FormTargets, text \in Strings(TextAlphabet, MaxText),
             term \in Terminators :
               /\ input = PrivmsgLine(tg, nick, user, target, text, term)
               /\ form = Some([username |-> nick, body |-> text])
       \/ /\ input = ExampleLine
          /\ form = Some([username |-> <<"a", "l", "i", "c", "e">>,
                          body |-> <<"h", "e", "l", "l", "o", " ",
                                     "w", "o", "r", "l", "d">>])
    /\ stage = "new"
    /\ raw = Pending
    /\ message = Pending

WithPassword ==
    \E p \in Passwords :
        /\ phase = "building"
        /\ builder' = with_password(builder, p)
        /\ UNCHANGED <<phase, outbound, inbound, peerClosed, pc, result, consumed,
                       callStart, wire, joinLog, handle, delivered, fds>>
        /\ UNCHANGED parseVars

WithNickname ==
    \E n \in Nicknames :
        /\ phase = "building"
        /\ builder' = with_nickname(builder, n)
        /\ UNCHANGED <<phase, outbound, inbound, peerClosed, pc, result, consumed,
                       callStart, wire, joinLog, handle, delivered, fds>>
        /\ UNCHANGED parseVars

WithCapability ==
    \E c \in Capabilities :
        /\ phase = "building"
        /\ Len(builder.capabilities) < MaxCaps
        /\ builder' = with_capability(builder, c)
        /\ UNCHANGED <<phase, outbound, inbound, peerClosed, pc, result, consumed,
                       callStart, wire, joinLog, handle, delivered, fds>>
        /\ UNCHANGED parseVars

\* IrcBuilder::connect.  opened: how far the stream set-up got (0: TcpStream::connect
\* failed, 1: try_clone failed, 2: both descriptors open).
Connect ==
    \E opened \in 0..2, works \in [1..3 -> BOOLEAN] :
        /\ phase = "building"
        /\ IF opened < 2
           THEN /\ phase' = "refused"
                /\ outbound' = <<>>
                /\ fds' = 0
           ELSE LET hs == handshake(builder, works)
                IN  /\ phase' = IF hs.ok THEN "connected" ELSE "failed"
                    /\ outbound' = hs.out
                    /\ fds' = IF hs.ok THEN 2 ELSE 0
        /\ UNCHANGED <<builder, inbound, peerClosed, pc, result, consumed,
                       callStart, wire, joinLog, handle, delivered>>
        /\ UNCHANGED parseVars

\* Irc::join
Join ==
    \E channel_name \in Channels, works \in BOOLEAN :
        /\ phase = "connected"
        /\ pc = "idle"
        /\ Len(joinLog) < MaxJoins
        /\ outbound' = writeln(outbound, join_line(channel_name), works).out
        /\ joinLog' = Append(joinLog, [name |-> channel_name, ok |-> works])
        /\ UNCHANGED <<builder, phase, inbound, peerClosed, pc, result, consumed,
                       callStart, wire, handle, delivered, fds>>
        /\ UNCHANGED parseVars

\* Irc::receive is called
ReceiveCall ==
    /\ phase = "connected"
    /\ pc = "idle"
    /\ pc' = "reading"
    /\ result' = Pending
    /\ callStart' = Len(consumed)
    /\ UNCHANGED <<builder, phase, outbound, inbound, peerClosed, consumed,
                   wire, joinLog, handle, delivered, fds>>
    /\ UNCHANGED parseVars

\* mutant of ReceiveEof: the end of the stream is reported once, and the
\* next read waits for bytes again
ReceiveEof_once ==
    /\ result' = receive_eof
    /\ pc' = "idle"
    /\ handle' = "Closed"
    /\ peerClosed' = FALSE
    /\ UNCHANGED <<inbound, consumed, delivered>>

\* read_line reports n == 0: the end of the stream stays readable, and
\* receive returns
ReceiveEof ==
    /\ result' = receive_eof
    /\ pc' = "idle"
    /\ handle' = IF receive_eof = Ok(None) THEN "Closed" ELSE handle
    /\ UNCHANGED <<inbound, consumed, peerClosed, delivered>>

\* one pass of the loop of Irc::receive, from read_line to the return or the
\* next pass
ReceiveLoop ==
    /\ pc = "reading"
    /\ read_ready(inbound, peerClosed)
    /\ \E r \in {read_line(inbound)} :
           IF Len(r.line) = 0
           THEN ReceiveEof
           ELSE \E step \in {receive_line(r.line)} :
                    /\ inbound' = r.rest
                    /\ consumed' = Append(consumed, r.line)
                    /\ result' = step.val
                    /\ pc' = IF step.ret THEN "idle" ELSE "reading"
                    /\ handle' = IF step.ret /\ step.val = Ok(None)
                                 THEN "Closed" ELSE handle
                    /\ delivered' = IF step.ret /\ step.val.ok /\ step.val.val # None
                                    THEN Append(delivered, step.val.val[1])
                                    ELSE delivered
                    /\ UNCHANGED peerClosed
    /\ UNCHANGED <<builder, phase, outbound, callStart, wire, joinLog, fds>>
    /\ UNCHANGED parseVars

\* the peer sends a line
ServerSend ==
    \E l \in ServerLines :
        /\ phase = "connected"
        /\ ~peerClosed
        /\ Len(wire) < MaxLines
        /\ inbound' = inbound \o l
        /\ wire' = Append(wire, l)
        /\ UNCHANGED <<builder, phase, outbound, peerClosed, pc, result, consumed,
                       callStart, joinLog, handle, delivered, fds>>
        /\ UNCHANGED parseVars

\* the peer closes the stream
ServerClose ==
    /\ phase = "connected"
    /\ ~peerClosed
    /\ peerClosed' = TRUE
    /\ UNCHANGED <<builder, phase, outbound, inbound, pc, result, consumed,
                   callStart, wire, joinLog, handle, delivered, fds>>
    /\ UNCHANGED parseVars

\* IrcMessageRaw::parse(&buf)
ParseLine ==
    /\ stage = "new"
    /\ raw' = parse(input)
    /\ stage' = "parsed"
    /\ UNCHANGED <<input, message, form>>
    /\ UNCHANGED connVars

\* Message::from_raw_msg(raw_msg)
MapLine ==
    /\ stage = "parsed"
    /\ raw.ok
    /\ message' = from_raw_msg(raw.val)
    /\ stage' = "mapped"
    /\ UNCHANGED <<input, raw, form>>
    /\ UNCHANGED connVars

Next ==
    \/ Connect
    \/ Join
    \/ ReceiveCall
    \/ ReceiveLoop
    \/ ServerSend
    \/ ServerClose

NextBuilder ==
    \/ WithPassword
    \/ WithNickname
    \/ WithCapability
    \/ Connect

NextParse ==
    \/ ParseLine
    \/ MapLine

\* main.rs: one connection, from connect to the end of the stream
Spec == Init /\ [][Next]_vars

\* every builder configuration, through connect
SpecBuilder == InitBuilder /\ [][NextBuilder]_vars

\* parse and from_raw_msg on every bounded line
SpecParse == InitParse /\ [][NextParse]_vars

----------------------------------------------------------------------------
(* Vocabulary of the claims about Irc::receive                             *)

RECURSIVE Flatten(_)
Flatten(ss) == IF ss = <<>> THEN <<>> ELSE Head(ss) \o Flatten(Tail(ss))

\* the lines read by the receive call in progress, or by the last one
ReadInCall == SubSeq(consumed, callStart + 1, Len(consumed))

Returned == pc = "idle" /\ result # Pending

\* a line that parses and whose command name is not PRIVMSG
Unmapped(l) ==
    \E r \in {parse(l)} : r.ok /\ r.val.command_name # PRIVMSG

\* a PRIVMSG line with a prefix and at least two parameters
WellFormedPrivmsg(l) ==
    \E r \in {parse(l)} :
        /\ r.ok
        /\ r.val.command_name = PRIVMSG
        /\ r.val.prefix # None
        /\ Len(r.val.command_params) >= 2

NoCommandName(l) == ~parse(l).ok

\* a PRIVMSG line lacking its prefix or its second parameter
BadPrivmsg(l) ==
    \E r \in {parse(l)} :
        /\ r.ok
        /\ r.val.command_name = PRIVMSG
        /\ (r.val.prefix = None \/ Len(r.val.command_params) < 2)

Malformed(l) == NoCommandName(l) \/ BadPrivmsg(l)

\* the lines read_line has returned are the bytes the peer sent, in order,
\* cut after each "\n" (the last one possibly cut by the end of the stream),
\* and the unread bytes are the rest
StreamInOrder ==
    /\ Flatten(consumed) \o inbound = Flatten(wire)
    /\ \A i \in 1..Len(consumed) :
          \E l \in {consumed[i]} :
              /\ l # <<>>
              /\ ~HasLF(SubSeq(l, 1, Len(l) - 1))
              /\ \/ l[Len(l)] = LF
                 \/ i = Len(consumed) /\ inbound = <<>> /\ peerClosed

----------------------------------------------------------------------------
(* C1: when the unread stream starts with k >= 0 lines that parse and are  *)
(* not PRIVMSG, followed by a well-formed PRIVMSG line, one receive call   *)
(* reads exactly those k+1 lines (the first lines of the stream not yet    *)
(* read, in order) and returns the message of the PRIVMSG line; while only *)
(* unmapped lines have been read the call goes on, and it returns          *)
(* Ok(None) only at the end of the stream, never for an unmapped line.     *)
C1_SkipsToPrivmsg ==
    /\ StreamInOrder
    /\ \A j \in 1..Len(ReadInCall) :
          (/\ WellFormedPrivmsg(ReadInCall[j])
           /\ \A i \in 1..(j - 1) : Unmapped(ReadInCall[i]))
          => /\ j = Len(ReadInCall)
             /\ pc = "idle"
             /\ result.ok
             /\ result.val # None
             /\ result.val[1] = from_raw_msg(parse(ReadInCall[j]).val).val[1]
    /\ (Len(ReadInCall) > 0 /\ \A i \in 1..Len(ReadInCall) : Unmapped(ReadInCall[i]))
          => pc = "reading" \/ result = Ok(None)
    /\ (Returned /\ result = Ok(None)) => inbound = <<>> /\ peerClosed

\* C1 witness: the call read the numeric reply, then the PRIVMSG, and returned it
C1_Witness ==
    /\ Returned
    /\ ReadInCall = <<LineWelcome, LinePrivmsg>>
    /\ result = Ok(Some(PrivMsg(<<"a">>, <<"h", " ", "w">>)))

\* C2: a receive call returns Ok(None) exactly when its read_line reports the
\* end of the stream (no unread byte is left and the peer has closed); a
\* pass that goes on to the next read has read a line.
C2_NoneIffClosed ==
    [][ (pc = "reading" /\ pc' = "idle"
            => ((result' = Ok(None)) <=> (inbound = <<>> /\ peerClosed)))
        /\ (pc = "reading" /\ pc' = "reading" /\ result' # result
            => inbound # <<>>)
        /\ (result' = Ok(None) => consumed' = consumed) ]_vars

\* C2 witness: receive returned Ok(None) on a closed stream from which lines
\* were read before
C2_Witness ==
    /\ Returned
    /\ result = Ok(None)
    /\ peerClosed
    /\ Len(consumed) > 0

\* C3: once a receive call has returned Ok(None), every later call returns:
\* its read is never blocked, it meets the end of the stream again, and what
\* it returns is Ok(None), neither an error nor a message.
C3_ClosedStaysClosed ==
    handle = "Closed" =>
        /\ pc = "idle" => result = Ok(None)
        /\ pc = "reading" => /\ ENABLED ReceiveLoop
                             /\ inbound = <<>>
                             /\ peerClosed
                             /\ result = Pending

\* C3 witness: a second call on the closed handle is in progress
C3_Witness == handle = "Closed" /\ pc = "reading"

\* C4: a line without command name, or a PRIVMSG line without prefix or
\* second parameter, is the last line its receive call reads, and the call
\* returns the error, whatever follows on the stream.
C4_ErrorsPropagate ==
    \A i \in 1..Len(ReadInCall) :
        \E l \in {ReadInCall[i]} :
            Malformed(l) =>
                /\ i = Len(ReadInCall)
                /\ pc = "idle"
                /\ result = IF NoCommandName(l) THEN Err(ErrCommandName)
                            ELSE Err(ErrPrivmsg)

\* C4 witness: the blank line gave an error while a well-formed PRIVMSG line
\* is still unread
C4_Witness ==
    /\ Returned
    /\ ~result.ok
    /\ ReadInCall = <<LineWelcome, LineBlank>>
    /\ inbound = LinePrivmsg

\* C5: after a grammar or mapping error the connection is still open, the
\* call has read the unmapped lines before the offending line and that line,
\* nothing more, and the stream is read on in order by the next call.
C5_ErrorKeepsConnection ==
    /\ StreamInOrder
    /\ (Returned /\ ~result.ok) =>
          /\ phase = "connected"
          /\ fds = 2
          /\ handle = "Open"
          /\ Len(ReadInCall) >= 1
          /\ Malformed(ReadInCall[Len(ReadInCall)])
          /\ \A i \in 1..(Len(ReadInCall) - 1) : Unmapped(ReadInCall[i])
    /\ callStart <= Len(consumed)
    /\ pc = "idle" => (callStart = Len(consumed) => result \in {Pending, Ok(None)})

\* C5 witness: a call returned an error for the blank line, and the next call
\* read the line after it and returned its message
C5_Witness ==
    /\ Returned
    /\ consumed = <<LineBlank, LinePrivmsg>>
    /\ callStart = 1
    /\ result = Ok(Some(PrivMsg(<<"a">>, <<"h", " ", "w">>)))

----------------------------------------------------------------------------
(* Vocabulary of the claims about the writes                               *)

RECURSIVE Words(_)
\* s cut at every single space
Words(s) ==
    LET k == FirstFail(s, NotIn({" "}))
    IN  IF k > Len(s) THEN <<s>>
        ELSE <<SubSeq(s, 1, k - 1)>> \o Words(SubSeq(s, k + 1, Len(s)))

StartsWith(s, p) == Len(s) >= Len(p) /\ SubSeq(s, 1, Len(p)) = p

\* the handshake commands a configuration asks for, in the documented order
ExpectedCommands(b) ==
    (IF Len(b.capabilities) > 0 THEN <<"CAP">> ELSE <<>>)
        \o (IF b.password # None THEN <<"PASS">> ELSE <<>>)
        \o (IF b.nickname # None THEN <<"NICK">> ELSE <<>>)

CapReqText == <<"C", "A", "P", " ", "R", "E", "Q", " ", ":">>

\* whether a write is the line of the named handshake command for b
IsCommandLine(kind, l, b) ==
    /\ l # <<>>
    /\ l[Len(l)] = LF
    /\ \E text \in {SubSeq(l, 1, Len(l) - 1)} :
          IF kind = "CAP"
          THEN /\ StartsWith(text, CapReqText)
               /\ Words(SubSeq(text, Len(CapReqText) + 1, Len(text))) = b.capabilities
          ELSE IF kind = "PASS"
          THEN text = <<"P", "A", "S", "S", " ">> \o b.password[1]
          ELSE text = <<"N", "I", "C", "K", " ">> \o b.nickname[1]

\* C6: connect writes CAP REQ (iff a capability was added, with all names in
\* the order added, separated by single spaces), then PASS (iff a password is
\* set), then NICK (iff a nickname is set), each once and nothing else;
\* nothing for the empty configuration.  A connect that returns the handle
\* has written all of them; one that a failed write ends has written those
\* before the failed one and no other.
C6_HandshakeOrder ==
    \E want \in {ExpectedCommands(builder)} :
        /\ phase \in {"building", "refused"} => outbound = <<>>
        /\ Len(outbound) <= Len(want)
        /\ \A i \in 1..Len(outbound) : IsCommandLine(want[i], outbound[i], builder)
        /\ phase = "connected" => Len(outbound) = Len(want)
        /\ phase = "failed" => Len(outbound) < Len(want)

\* C6 witness: two capabilities, a password and a nickname, and connect returned
\* the handle
C6_Witness ==
    /\ phase = "connected"
    /\ builder.capabilities = << <<"t">>, <<"g">> >>
    /\ builder.password = Some(<<"q">>)
    /\ builder.nickname = Some(<<"m">>)
    /\ outbound = << CapReqText \o <<"t", " ", "g", LF>>,
                     <<"P", "A", "S", "S", " ", "q", LF>>,
                     <<"N", "I", "C", "K", " ", "m", LF>> >>

\* C7: a join call makes one write, the line JOIN #<channelName> with one '#'
\* put before the name as given (none when the write fails), and reads
\* nothing: the unread bytes, the lines read and the receive call's state are
\* as before, and the stream is still read in order.
C7_JoinWritesOneLine ==
    [][ Len(joinLog') = Len(joinLog) + 1 =>
          \E j \in {joinLog'[Len(joinLog')]} :
              /\ outbound' = IF j.ok
                             THEN Append(outbound,
                                         <<"J", "O", "I", "N", " ">> \o <<"#">>
                                             \o j.name \o <<LF>>)
                             ELSE outbound
              /\ UNCHANGED <<inbound, consumed, peerClosed, wire, pc, result,
                             callStart, handle>>
              /\ StreamInOrder' ]_vars

\* C7 witness: a join was written between two lines of the stream, and receive
\* returned the PRIVMSG that followed
C7_Witness ==
    /\ joinLog = <<[name |-> <<"c">>, ok |-> TRUE]>>
    /\ outbound[Len(outbound)] = <<"J", "O", "I", "N", " ", "#", "c", LF>>
    /\ consumed = <<LineWelcome, LinePrivmsg>>
    /\ Returned
    /\ result.ok /\ result.val # None

----------------------------------------------------------------------------
(* Vocabulary of the claims about parse                                    *)

RECURSIVE Tokens(_)
\* the maximal runs of non-whitespace characters of s, in order
Tokens(s) ==
    LET b == FirstFail(s, In(Whitespace))
        e == FirstFail(SubSeq(s, b, Len(s)), NotIn(Whitespace)) + b - 1
    IN  IF b > Len(s) THEN <<>>
        ELSE <<SubSeq(s, b, e - 1)>> \o Tokens(SubSeq(s, e, Len(s)))

\* the position, among the tokens of the line, of the command name: after the
\* tags token (when the line starts with '@') and the prefix token (when the
\* next token starts with ':')
CommandIndex(l) ==
    LET toks == Tokens(l)
        nTags == IF l # <<>> /\ l[1] = "@" THEN 1 ELSE 0
        nPrefix == IF Len(toks) > nTags /\ toks[nTags + 1][1] = ":" THEN 1 ELSE 0
    IN  nTags + nPrefix + 1

\* C8: parse fails exactly when nothing but whitespace is left after the tags
\* and prefix segments, with the missing-command-name error; otherwise it
\* succeeds and the command name is that non-empty run of characters.
C8_FailsIffNoCommand ==
    stage # "new" =>
        \E toks \in {Tokens(input)}, k \in {CommandIndex(input)} :
            /\ raw.ok <=> k <= Len(toks)
            /\ ~raw.ok => raw = Err(ErrCommandName)
            /\ raw.ok => /\ raw.val.command_name # <<>>
                         /\ raw.val.command_name = toks[k]

\* C8 witness: a line of tags, prefix and whitespace only was refused
C8_Witness ==
    /\ stage = "parsed"
    /\ input = <<"@", " ", ":", " ">>
    /\ raw = Err(ErrCommandName)

\* C9: from_raw_msg returns an error exactly for a PRIVMSG record without
\* prefix or with fewer than two parameters, Ok(None) for every other command
\* name, and a Message only for a PRIVMSG record.
C9_MapperCases ==
    stage = "mapped" =>
        \E r \in {raw.val} :
            /\ ~message.ok <=> /\ r.command_name = PRIVMSG
                               /\ (r.prefix = None \/ Len(r.command_params) < 2)
            /\ ~message.ok => message.err = ErrPrivmsg
            /\ r.command_name # PRIVMSG => message = Ok(None)
            /\ (message.ok /\ message.val # None) => r.command_name = PRIVMSG

\* C9 witness: a PRIVMSG record with a prefix and one parameter was refused
C9_Witness ==
    /\ stage = "mapped"
    /\ raw.val.command_name = PRIVMSG
    /\ raw.val.prefix # None
    /\ Len(raw.val.command_params) = 1
    /\ message = Err(ErrPrivmsg)

\* C10: a line [@tags ]:nick!user PRIVMSG <target> :<text> with terminator
\* "\r\n", "\n" or none parses, and maps to the PrivMsg whose username is nick
\* and whose message is text, character for character.
C10_PrivmsgEndToEnd ==
    form # None =>
        /\ stage = "parsed" => raw.ok
        /\ stage = "mapped" =>
              message = Ok(Some(PrivMsg(form[1].username, form[1].body)))

\* C10 witness: the documented example gave alice and "hello world"
C10_Witness ==
    /\ stage = "mapped"
    /\ input = ExampleLine
    /\ message = Ok(Some(PrivMsg(<<"a", "l", "i", "c", "e">>,
                                 <<"h", "e", "l", "l", "o", " ",
                                   "w", "o", "r", "l", "d">>)))

----------------------------------------------------------------------------
(* Vocabulary of the claims about the fields of a parsed record            *)

RECURSIVE SplitOn(_, _)
\* s cut at every occurrence of the character ch
SplitOn(s, ch) ==
    LET k == FirstFail(s, NotIn({ch}))
    IN  IF k > Len(s) THEN <<s>>
        ELSE <<SubSeq(s, 1, k - 1)>> \o SplitOn(SubSeq(s, k + 1, Len(s)), ch)

Contains(s, ch) == \E i \in 1..Len(s) : s[i] = ch

\* the tags blob of a line that starts with '@': what follows the '@', up to
\* the first whitespace
TagsBlob(l) == SubSeq(l, 2, FirstFail(l, NotIn(Whitespace)) - 1)

\* a key=value pair with a '=' and a non-empty key
GoodPair(p) == Contains(p, "=") /\ p[1] # "="

\* the key=value pairs of a blob, cut at ';', before the first pair without
\* '=' or with an empty key
ExpectedTags(blob) ==
    LET pairs == SplitOn(blob, ";")
        bad == {i \in 1..Len(pairs) : ~GoodPair(pairs[i])}
        n == IF bad = {} THEN Len(pairs)
             ELSE (CHOOSE i \in bad : \A j \in bad : i <= j) - 1
    IN  [i \in 1..n |->
            LET k == FirstFail(pairs[i], NotIn({"="}))
            IN  <<SubSeq(pairs[i], 1, k - 1),
                  SubSeq(pairs[i], k + 1, Len(pairs[i]))>>]

\* C11: for a line that starts with '@', the tags are the key=value pairs of
\* the ';'-separated blob before the first pair that has no '=' or an empty
\* key, in input order, duplicates kept.  (The code finds the key by reading
\* up to the next '=', across ';': it differs on a pair without '=' and on
\* an empty pair inside the blob.)
C11_TagsBeforeFirstBadPair ==
    (stage # "new" /\ raw.ok /\ input # <<>> /\ input[1] = "@")
        => raw.val.tags = ExpectedTags(TagsBlob(input))

\* the first character of s that is not whitespace, as an Option
FirstNonWhitespace(s) ==
    LET r == skip_while(s, In(Whitespace))
    IN  IF r = <<>> THEN None ELSE Some(r[1])

\* C12 as stated: every line that parses and whose first character is
\* neither '@' nor ':' (lines that begin with whitespace included) has empty
\* tags and no prefix.
C12_Original ==
    (stage # "new" /\ raw.ok /\ input # <<>> /\ input[1] \notin {"@", ":"})
        => raw.val.tags = <<>> /\ raw.val.prefix = None

\* C12, amended: every line that parses and whose first character is not '@'
\* has empty tags, and has no prefix exactly when its first character that is
\* not whitespace is not ':' (whitespace before the ':' is skipped, so
\* " :srv CMD" has the prefix "srv").
C12_NoMarkerNoTagsNoPrefix ==
    (stage # "new" /\ raw.ok /\ input # <<>> /\ input[1] # "@")
        => /\ raw.val.tags = <<>>
           /\ raw.val.prefix = None <=> FirstNonWhitespace(input) # Some(":")

\* a parsed line that begins with whitespace and has neither tags nor prefix
C12_Witness ==
    /\ stage # "new" /\ raw.ok
    /\ input # <<>> /\ input[1] \in Whitespace
    /\ FirstNonWhitespace(input) \notin {Some(":"), Some("@")}
    /\ raw.val.tags = <<>> /\ raw.val.prefix = None

RECURSIVE AfterTokens(_, _)
\* what is left of s after its first n tokens
AfterTokens(s, n) ==
    IF n = 0 THEN s
    ELSE LET b == FirstFail(s, In(Whitespace))
             e == FirstFail(SubSeq(s, b, Len(s)), NotIn(Whitespace)) + b - 1
         IN  AfterTokens(SubSeq(s, e, Len(s)), n - 1)

\* the parameters text of a line: what follows the command name and the one
\* whitespace character that ends it
ParamsText(l) ==
    LET r == AfterTokens(l, CommandIndex(l))
    IN  IF r = <<>> THEN <<>> ELSE Tail(r)

\* s up to, not including, its first '\r' or '\n'
UpToLineEnd(s) == SubSeq(s, 1, FirstFail(s, NotIn({CR, LF})) - 1)

\* where the parameters text p has a parameter introduced by ':' as its
\* first parameter, or as its second after one parameter and one blank: the
\* parameter's index and the text after its ':'
TrailingParams(p) ==
    IF p = <<>> THEN {}
    ELSE IF p[1] = ":" THEN {[index |-> 1, text |-> Tail(p)]}
    ELSE IF p[1] \in Whitespace THEN {}
    ELSE LET e == FirstFail(p, NotIn(Whitespace))
         IN  IF e < Len(p) /\ p[e] \in {" ", TAB} /\ p[e + 1] = ":"
             THEN {[index |-> 2, text |-> SubSeq(p, e + 2, Len(p))]}
             ELSE {}

\* C13: a parameter introduced by ':' is the text after the ':' up to the
\* first '\r' or '\n' or the end of input, spaces included and unchanged;
\* when nothing precedes the line end it is the empty string, and the parse
\* does not fail.
C13_TrailingVerbatim ==
    stage # "new" =>
        \A t \in TrailingParams(ParamsText(input)) :
            /\ raw.ok
            /\ Len(raw.val.command_params) >= t.index
            /\ raw.val.command_params[t.index] = UpToLineEnd(t.text)

\* C13 witness: the second parameter ":a \r\n" of a PRIVMSG line was taken as
\* "a ", its space kept
C13_Witness ==
    /\ stage # "new" /\ raw.ok
    /\ \E t \in TrailingParams(ParamsText(input)) :
          /\ t.index = 2
          /\ t.text = <<"a", " ", CR, LF>>
          /\ raw.val.command_params[2] = <<"a", " ">>

\* l is optional tags, optional prefix and a command name, separated by
\* blanks, with nothing after the command name but the terminator term
NoParamLine(l, term) ==
    /\ Len(l) > Len(term)
    /\ SubSeq(l, Len(l) - Len(term) + 1, Len(l)) = term
    /\ \E body \in {SubSeq(l, 1, Len(l) - Len(term))} :
          /\ ~Contains(body, CR) /\ ~Contains(body, LF)
          /\ body[Len(body)] \notin Whitespace
          /\ Len(Tokens(body)) = CommandIndex(body)

\* C14: a line of optional tags, optional prefix and a command name without
\* parameters parses with no parameters, whether it ends with "\r\n", with
\* "\n" or with nothing.
C14_NoParamsAnyTerminator ==
    stage # "new" =>
        \A term \in Terminators :
            NoParamLine(input, term) => raw.ok /\ raw.val.command_params = <<>>

\* C15: a parameter introduced by ':' is the last one: once it has been read
\* the parameter loop stops, and nothing that follows it in the input, such
\* as text after a bare '\r', becomes a parameter.
C15_TrailingIsLast ==
    (stage # "new" /\ raw.ok) =>
        \A t \in TrailingParams(ParamsText(input)) :
            Len(raw.val.command_params) = t.index

\* a PRIVMSG record whose prefix has no '!' was mapped to a PrivMsg
MappedWithoutBang ==
    /\ stage = "mapped"
    /\ message.ok /\ message.val # None
    /\ raw.val.command_name = PRIVMSG
    /\ ~Contains(raw.val.prefix[1], "!")

\* C16: when the prefix of a PRIVMSG record has no '!' (a bare server name,
\* say), the username of the PrivMsg is the empty string.
C16_NoBangEmptyUsername == MappedWithoutBang => message.val[1].username = <<>>

\* C17: when a write of the handshake fails, connect returns the error: the
\* commands before the failed one were sent and none after it, the caller has
\* no handle to join or receive on, and the stream and its clone are
\* released.
C17_FailedWriteEndsConnect ==
    phase = "failed" =>
        \E want \in {ExpectedCommands(builder)} :
            /\ \E k \in 1..Len(want) :
                  /\ Len(outbound) = k - 1
                  /\ \A i \in 1..(k - 1) :
                        IsCommandLine(want[i], outbound[i], builder)
            /\ fds = 0
            /\ ~ENABLED Join
            /\ ~ENABLED ReceiveCall

\* C17 witness: with a capability, a password and a nickname, the PASS write
\* failed: CAP REQ alone was sent, and no descriptor is held
C17_Witness ==
    /\ phase = "failed"
    /\ builder.capabilities # <<>>
    /\ builder.password = Some(<<"q">>)
    /\ builder.nickname # None
    /\ Len(outbound) = 1
    /\ StartsWith(outbound[1], CapReqText)
    /\ fds = 0

\* every line the peer has sent parses and maps without error
CleanStream ==
    \A i \in 1..Len(wire) : Unmapped(wire[i]) \/ WellFormedPrivmsg(wire[i])

RECURSIVE MessagesOf(_)
\* the Messages of the PRIVMSG lines among the given lines, in order
MessagesOf(lines) ==
    IF lines = <<>> THEN <<>>
    ELSE (IF WellFormedPrivmsg(Head(lines))
          THEN <<from_raw_msg(parse(Head(lines)).val).val[1]>>
          ELSE <<>>) \o MessagesOf(Tail(lines))

Free(s, cs) == \A i \in 1..Len(s) : s[i] \notin cs

\* t occurs in s as a run of adjacent characters
Occurs(t, s) ==
    \E i \in 1..(Len(s) - Len(t) + 1) : SubSeq(s, i, i + Len(t) - 1) = t

\* C19: in a parsed record no field has a '\r' or a '\n'; the tag keys and
\* values, the prefix and the command name have no whitespace at all, nor
\* has any parameter but one introduced by ':' (one that follows a ':' in
\* the line).
C19_FieldsFreeOfTerminators ==
    (stage # "new" /\ raw.ok) =>
        \E r \in {raw.val} :
            /\ \A i \in 1..Len(r.tags) :
                  Free(r.tags[i][1], Whitespace) /\ Free(r.tags[i][2], Whitespace)
            /\ r.prefix # None => Free(r.prefix[1], Whitespace)
            /\ Free(r.command_name, Whitespace)
            /\ \A i \in 1..Len(r.command_params) :
                  /\ Free(r.command_params[i], {CR, LF})
                  /\ \/ Free(r.command_params[i], Whitespace)
                     \/ Occurs(<<":">> \o r.command_params[i], input)

\* C19 witness: the documented example, which ends with "\r\n", gave two tags,
\* a prefix, and the parameters "#chan" and "hello world"
C19_Witness ==
    /\ stage = "parsed" /\ raw.ok
    /\ input = ExampleLine
    /\ Len(raw.val.tags) = 2
    /\ raw.val.prefix # None
    /\ Len(raw.val.command_params) = 2
    /\ ~Free(raw.val.command_params[2], Whitespace)

\* the segment markers of a line
Markers == {"@", ":", "=", ";"}

RECURSIVE Plain(_)
\* the characters of s that are neither whitespace nor a segment marker, in
\* order
Plain(s) ==
    IF s = <<>> THEN <<>>
    ELSE (IF Head(s) \in Whitespace \cup Markers THEN <<>> ELSE <<Head(s)>>)
             \o Plain(Tail(s))

\* the fields of a parsed record one after the other, in the order of the line
FieldsText(r) ==
    Flatten([i \in 1..Len(r.tags) |-> r.tags[i][1] \o r.tags[i][2]])
        \o (IF r.prefix = None THEN <<>> ELSE r.prefix[1])
        \o r.command_name
        \o Flatten(r.command_params)

\* C20: after a parameter not introduced by ':' the run of '\r'/'\n' that
\* follows is skipped and nothing else: of a line without tags and without a
\* ':' among its parameters, every character that is neither whitespace nor
\* a segment marker is in exactly one field of the record, in the order of
\* the line, so that no character of a parameter is dropped.
C20_NoCharacterDropped ==
    (/\ stage # "new" /\ raw.ok
     /\ input[1] # "@"
     /\ ~Contains(ParamsText(input), ":"))
        => Plain(FieldsText(raw.val)) = Plain(input)

====
